---- MODULE Spec2Model ----
(***************************************************************************)
(* A model of rest_client.go: the RestClient value, its builder methods,   *)
(* the GetHeaders accessor, and the terminal Get/Put/Post/Delete methods.  *)
(*                                                                         *)
(* Go strings are sequences of one-character strings.  Go maps and the     *)
(* backing arrays of Go slices are objects on a heap, and a RestClient     *)
(* holds references to them, so that sharing between RestClient values is  *)
(* something the model can show.                                           *)
(***************************************************************************)
EXTENDS Integers, Sequences, FiniteSets, TLC

VARIABLES
    cfg,        \* the RestClient values created so far, in creation order
    origin,     \* origin[i]: the call that returned cfg[i]
    maps,       \* heap of map[string]string objects
    arrays,     \* heap of []*http.Cookie backing arrays
    mutations,  \* writes the caller made through a map returned by GetHeaders
    call        \* trace of the latest operation when it is a terminal call

vars == <<cfg, origin, maps, arrays, mutations, call>>

(***************************************************************************)
(* Bounds of the model.                                                    *)
(***************************************************************************)
MaxConfigs == 2         \* RestClient values in a run of Spec
MaxBuildConfigs == 3    \* RestClient values in a run of SpecBuild
MaxMediaConfigs == 3    \* RestClient values in a run of SpecMedia
MaxCookieConfigs == 6   \* RestClient values in a run of SpecCookie
MaxMutations == 1       \* caller writes through GetHeaders in a run
MaxLen == 3             \* length of a base URL in SpecPath
MaxSegLen == 2          \* length of a path segment in SpecPath
MaxSegs == 2            \* path segments of one Path call in SpecPath
MaxResults == 2         \* result containers of a terminal call

(***************************************************************************)
(* Strings.                                                                *)
(***************************************************************************)
Slash == "/"

\* strings.Trim(s, "/"): s without its leading and trailing slashes
RECURSIVE TrimLeft(_)
TrimLeft(s) ==
    IF s # <<>> /\ Head(s) = Slash THEN TrimLeft(Tail(s)) ELSE s

RECURSIVE TrimRight(_)
TrimRight(s) ==
    IF s # <<>> /\ s[Len(s)] = Slash
    THEN TrimRight(SubSeq(s, 1, Len(s) - 1))
    ELSE s

Trim(s) == TrimRight(TrimLeft(s))

\* fmt.Sprintf("%s/%s", a, b)
Sprintf(a, b) == a \o <<Slash>> \o b

Upper == <<"A", "C", "I", "J", "L", "N", "O", "P", "S", "T">>
Lower == <<"a", "c", "i", "j", "l", "n", "o", "p", "s", "t">>

\* strings.ToLower on the letters the model's strings use
ToLowerChar(c) ==
    IF \E n \in 1..Len(Upper) : Upper[n] = c
    THEN Lower[CHOOSE n \in 1..Len(Upper) : Upper[n] = c]
    ELSE c

ToLower(s) == [n \in 1..Len(s) |-> ToLowerChar(s[n])]

\* strings.Contains(s, sub)
Contains(s, sub) ==
    \E n \in 0..(Len(s) - Len(sub)) : SubSeq(s, n + 1, n + Len(sub)) = sub

\* every string over alphabet of length at most n
StringsUpTo(alphabet, n) == UNION {[1..m -> alphabet] : m \in 0..n}

(***************************************************************************)
(* MediaType: the interface the RestClient consumes (String, Unmarshal).   *)
(***************************************************************************)
ApplicationJSON == "ApplicationJSON"
ApplicationXML == "ApplicationXML"
MediaType == {ApplicationJSON, ApplicationXML}

\* MediaType.String(): the wire name of the media type
String(mt) ==
    IF mt = ApplicationJSON
    THEN <<"a", "p", "p", "l", "i", "c", "a", "t", "i", "o", "n", "/", "j", "s", "o", "n">>
    ELSE <<"a", "p", "p", "l", "i", "c", "a", "t", "i", "o", "n", "/", "x", "m", "l">>

(***************************************************************************)
(* Inputs.                                                                 *)
(***************************************************************************)
Keys == {"H", "K"}
Values == {"1", "2"}
Cookies == {"x", "y"}
NoEntry == "-"          \* a key the map does not hold
NilCookie == "nil"      \* the zero value of an array slot

\* "http://x/", "http://x?K=1" and "%"
BaseURLs ==
    { <<"h", "t", "t", "p", ":", "/", "/", "x", "/">>,
      <<"h", "t", "t", "p", ":", "/", "/", "x", "?", "K", "=", "1">>,
      <<"%">> }

\* argument lists of Path in Spec: ("a") and ("/b/", "")
PathArgs == { << <<"a">> >>, << <<"/", "b", "/">>, <<>> >> }

PathAlphabet == {Slash, "a"}

(***************************************************************************)
(* The heap: maps and slices.                                              *)
(***************************************************************************)
\* make(map[string]string)
EmptyMap == [k \in Keys |-> NoEntry]

\* the nil slice
NilSlice == [arr |-> 0, len |-> 0, cap |-> 0]

\* the elements of slice s
Elems(as, s) == IF s.arr = 0 THEN <<>> ELSE SubSeq(as[s.arr], 1, s.len)

\* the capacity append gives a grown slice (runtime growslice, small slices)
growslice(oldCap, newLen) ==
    IF newLen > 2 * oldCap THEN newLen ELSE 2 * oldCap

\* append(s, c): the slice it returns and the heap it leaves
appendSlice(as, s, c) ==
    IF s.len < s.cap
    THEN [slice |-> [s EXCEPT !.len = s.len + 1],
          arrays |-> [as EXCEPT ![s.arr][s.len + 1] = c]]
    ELSE LET newCap == growslice(s.cap, s.len + 1)
             fresh == [n \in 1..newCap |->
                          IF n <= s.len THEN Elems(as, s)[n]
                          ELSE IF n = s.len + 1 THEN c
                          ELSE NilCookie]
         IN  [slice |-> [arr |-> Len(as) + 1, len |-> s.len + 1, cap |-> newCap],
              arrays |-> Append(as, fresh)]

(***************************************************************************)
(* RestClient.                                                             *)
(***************************************************************************)
\* newClient: the private constructor
newClient(client, url, accept, contentType, headers, query, cookies) ==
    [client |-> client, url |-> url, accept |-> accept,
     contentType |-> contentType, headers |-> headers, query |-> query,
     cookies |-> cookies]

\* MakeClient, were the base URL stored as given
MakeClientUntrimmed(baseUrl) ==
    newClient("http.Client", baseUrl, ApplicationJSON, ApplicationJSON,
              1, 2, NilSlice)

\* MakeClient(baseUrl) on an empty heap: its two maps are objects 1 and 2
MakeClient(baseUrl) ==
    newClient("http.Client", Trim(baseUrl), ApplicationJSON, ApplicationJSON,
              1, 2, NilSlice)

\* what a RestClient value shows of its fields
GetURL(rc) == rc.url
GetAccept(rc) == rc.accept
GetContentType(rc) == rc.contentType
GetHeaders(rc) == rc.headers
HeadersOf(ms, rc) == ms[rc.headers]
QueryOf(ms, rc) == ms[rc.query]
CookiesOf(as, rc) == Elems(as, rc.cookies)

NoCall == [op |-> "none"]

InitWith(bases) ==
    \E baseUrl \in bases :
        /\ cfg = <<MakeClient(baseUrl)>>
        /\ origin = <<[op |-> "MakeClient", rc |-> 0, arg |-> baseUrl]>>
        /\ maps = <<EmptyMap, EmptyMap>>
        /\ arrays = <<>>
        /\ mutations = 0
        /\ call = NoCall

Init == InitWith(BaseURLs)

\* the run has made no terminal call: a terminal call writes no field, map
\* or array, so a run is followed up to its first terminal call
Running == call = NoCall

\* a builder call on cfg[i] returned made
Returned(made, op, i, arg) ==
    /\ Running
    /\ cfg' = Append(cfg, made)
    /\ origin' = Append(origin, [op |-> op, rc |-> i, arg |-> arg])
    /\ call' = NoCall
    /\ UNCHANGED mutations

\* Accept, were it to set the content type as well
AcceptBoth(i, accept) ==
    LET rc == cfg[i] IN
    /\ Returned(newClient(rc.client, rc.url, accept, accept,
                          rc.headers, rc.query, rc.cookies),
                "Accept", i, accept)
    /\ UNCHANGED <<maps, arrays>>

Accept(i, accept) ==
    LET rc == cfg[i] IN
    /\ Returned(newClient(rc.client, rc.url, accept, rc.contentType,
                          rc.headers, rc.query, rc.cookies),
                "Accept", i, accept)
    /\ UNCHANGED <<maps, arrays>>

ContentType(i, contentType) ==
    LET rc == cfg[i] IN
    /\ Returned(newClient(rc.client, rc.url, rc.accept, contentType,
                          rc.headers, rc.query, rc.cookies),
                "ContentType", i, contentType)
    /\ UNCHANGED <<maps, arrays>>

\* the loop of Path, were the segments not trimmed
RECURSIVE PathURLUntrimmed(_, _)
PathURLUntrimmed(url, path) ==
    IF path = <<>> THEN url
    ELSE PathURLUntrimmed(Sprintf(url, Head(path)), Tail(path))

\* the loop of Path over its arguments
RECURSIVE PathURL(_, _)
PathURL(url, path) ==
    IF path = <<>> THEN url
    ELSE PathURL(Sprintf(url, Trim(Head(path))), Tail(path))

Path(i, path) ==
    LET rc == cfg[i] IN
    /\ Returned(newClient(rc.client, PathURL(rc.url, path), rc.accept,
                          rc.contentType, rc.headers, rc.query, rc.cookies),
                "Path", i, path)
    /\ UNCHANGED <<maps, arrays>>

Query(i, key, value) ==
    LET rc == cfg[i]
        newQuery == [maps[rc.headers] EXCEPT ![key] = value]
    IN
    /\ maps' = Append(maps, newQuery)
    /\ Returned(newClient(rc.client, rc.url, rc.accept, rc.contentType,
                          rc.headers, Len(maps) + 1, rc.cookies),
                "Query", i, <<key, value>>)
    /\ UNCHANGED arrays

\* Header, were the new pair written to the receiver's own map
HeaderInPlace(i, key, value) ==
    LET rc == cfg[i] IN
    /\ maps' = [maps EXCEPT ![rc.headers][key] = value]
    /\ Returned(newClient(rc.client, rc.url, rc.accept, rc.contentType,
                          rc.headers, rc.query, rc.cookies),
                "Header", i, <<key, value>>)
    /\ UNCHANGED arrays

Header(i, key, value) ==
    LET rc == cfg[i]
        newHeaders == [maps[rc.headers] EXCEPT ![key] = value]
    IN
    /\ maps' = Append(maps, newHeaders)
    /\ Returned(newClient(rc.client, rc.url, rc.accept, rc.contentType,
                          Len(maps) + 1, rc.query, rc.cookies),
                "Header", i, <<key, value>>)
    /\ UNCHANGED arrays

Cookie(i, cookie) ==
    LET rc == cfg[i]
        app == appendSlice(arrays, rc.cookies, cookie)
    IN
    /\ arrays' = app.arrays
    /\ Returned(newClient(rc.client, rc.url, rc.accept, rc.contentType,
                          rc.headers, rc.query, app.slice),
                "Cookie", i, cookie)
    /\ UNCHANGED maps

\* the caller writes m[key] = value (or deletes key) in m := cfg[i].GetHeaders()
WriteReturnedHeaders(i, key, value) ==
    /\ Running
    /\ mutations < MaxMutations
    /\ maps[GetHeaders(cfg[i])][key] # value
    /\ maps' = [maps EXCEPT ![GetHeaders(cfg[i])][key] = value]
    /\ mutations' = mutations + 1
    /\ call' = NoCall
    /\ UNCHANGED <<cfg, origin, arrays>>

(***************************************************************************)
(* net/url as request uses it, on the strings the model's URLs are made    *)
(* of: letters, digits, "/", ":", "?", "=" and "%".                        *)
(***************************************************************************)
Letters == {"a", "b", "h", "p", "t", "x", "H", "K"}
Digits == {"1", "2"}
HexDigits == {"1", "2", "a", "b"}

\* the index of the first c in s, 0 when there is none
IndexOf(s, c) ==
    IF \E n \in 1..Len(s) : s[n] = c
    THEN CHOOSE n \in 1..Len(s) : s[n] = c /\ \A m \in 1..(n - 1) : s[m] # c
    ELSE 0

From(s, n) == SubSeq(s, n, Len(s))

\* getScheme: n > 0, the scheme is the first n - 1 characters; 0, there is
\* none; -1, "missing protocol scheme"
RECURSIVE getScheme(_, _)
getScheme(s, n) ==
    IF n > Len(s) THEN 0
    ELSE IF s[n] \in Letters THEN getScheme(s, n + 1)
    ELSE IF s[n] \in Digits THEN (IF n = 1 THEN 0 ELSE getScheme(s, n + 1))
    ELSE IF s[n] = ":" THEN (IF n = 1 THEN -1 ELSE n)
    ELSE 0

\* unescape accepts s: every "%" is followed by two hexadecimal digits
ValidEscapes(s) ==
    \A n \in 1..Len(s) :
        s[n] = "%" => /\ n + 2 <= Len(s)
                      /\ s[n + 1] \in HexDigits
                      /\ s[n + 2] \in HexDigits

\* parseHost accepts host: no escape in it, and a port made of digits
ValidHost(host) ==
    /\ \A n \in 1..Len(host) : host[n] # "%"
    /\ LET colon == IndexOf(host, ":") IN
       colon > 0 => \A n \in (colon + 1)..Len(host) : host[n] \in Digits

ParseError == [ok |-> FALSE]

\* s up to its first c, all of s when there is none
Before(s, c) == IF IndexOf(s, c) = 0 THEN s ELSE SubSeq(s, 1, IndexOf(s, c) - 1)

\* the end of url.parse: setPath, with the escapes of the path checked
parsePath(Scheme, Host, path, RawQuery, ForceQuery) ==
    IF ~ValidEscapes(path) THEN ParseError
    ELSE [ok |-> TRUE,
          uri |-> [Scheme |-> Scheme, Opaque |-> <<>>, Host |-> Host,
                   Path |-> path, RawQuery |-> RawQuery,
                   ForceQuery |-> ForceQuery]]

\* url.parse after "//": the authority runs to the next slash
parseAuthority(Scheme, s, RawQuery, ForceQuery) ==
    IF ~ValidHost(Before(s, Slash)) THEN ParseError
    ELSE parsePath(Scheme, Before(s, Slash), From(s, Len(Before(s, Slash)) + 1),
                   RawQuery, ForceQuery)

\* url.parse after the scheme
parseRest(Scheme, rest, RawQuery, ForceQuery) ==
    IF rest = <<>> \/ rest[1] # Slash
    THEN IF Scheme # <<>>
         THEN [ok |-> TRUE,
               uri |-> [Scheme |-> Scheme, Opaque |-> rest, Host |-> <<>>,
                        Path |-> <<>>, RawQuery |-> RawQuery,
                        ForceQuery |-> ForceQuery]]
         ELSE IF IndexOf(Before(rest, Slash), ":") > 0 THEN ParseError
         ELSE parsePath(Scheme, <<>>, rest, RawQuery, ForceQuery)
    ELSE IF Len(rest) >= 2 /\ rest[2] = Slash
    THEN parseAuthority(Scheme, From(rest, 3), RawQuery, ForceQuery)
    ELSE parsePath(Scheme, <<>>, rest, RawQuery, ForceQuery)

\* url.parse once the query is cut off
parseScheme(s, RawQuery, ForceQuery) ==
    LET colon == getScheme(s, 1) IN
    IF colon = -1 THEN ParseError
    ELSE IF colon = 0 THEN parseRest(<<>>, s, RawQuery, ForceQuery)
    ELSE parseRest(SubSeq(s, 1, colon - 1), From(s, colon + 1),
                   RawQuery, ForceQuery)

\* url.Parse(rawURL)
Parse(rawURL) ==
    IF IndexOf(rawURL, "?") = 0 THEN parseScheme(rawURL, <<>>, FALSE)
    ELSE parseScheme(Before(rawURL, "?"),
                     From(rawURL, IndexOf(rawURL, "?") + 1),
                     IndexOf(rawURL, "?") = Len(rawURL))

\* (*URL).String()
URLString(uri) ==
    (IF uri.Scheme # <<>> THEN uri.Scheme \o <<":">> ELSE <<>>)
    \o (IF uri.Opaque # <<>> THEN uri.Opaque
        ELSE (IF (uri.Scheme # <<>> \/ uri.Host # <<>>)
                 /\ (uri.Host # <<>> \/ uri.Path # <<>>)
              THEN <<Slash, Slash>> \o uri.Host ELSE <<>>)
             \o (IF uri.Path # <<>> /\ uri.Path[1] # Slash /\ uri.Host # <<>>
                 THEN <<Slash>> ELSE <<>>)
             \o uri.Path)
    \o (IF uri.ForceQuery \/ uri.RawQuery # <<>>
        THEN <<"?">> \o uri.RawQuery ELSE <<>>)

\* url.ParseQuery on a query of at most one pair: the pairs <<key, value>>
ParseQuery(RawQuery) ==
    IF RawQuery = <<>> \/ ~ValidEscapes(RawQuery) THEN {}
    ELSE LET eq == IndexOf(RawQuery, "=") IN
         IF eq = 0 THEN {<<RawQuery, <<>> >>}
         ELSE {<<SubSeq(RawQuery, 1, eq - 1), From(RawQuery, eq + 1)>>}

\* (*URL).Query(): a Values parsed afresh out of RawQuery on every call
URLQuery(uri) == ParseQuery(uri.RawQuery)

\* the entries of map m as the pairs Values.Add is given
Entries(m) == {<<(<<k>>), (<<m[k]>>)>> : k \in {k \in Keys : m[k] # NoEntry}}

\* for k, v := range rc.query { uri.Query().Add(k, v) }: every Add goes to
\* the Values that this call of uri.Query() returned; uri is not written
addQueryParams(uri, query) ==
    LET added == URLQuery(uri) \cup Entries(query) IN uri

(***************************************************************************)
(* net/http as request uses it.                                            *)
(***************************************************************************)
HeaderNames == {"Accept", "Content-Type", "Cookie"} \cup Keys

\* an http.Header with no entry
NoHeader == [name \in HeaderNames |-> <<>>]

\* Header.Add(name, value)
HeaderAdd(header, name, value) == [header EXCEPT ![name] = Append(@, value)]

\* Header.Get(name): the first value, "" when there is none
HeaderGet(header, name) == IF header[name] = <<>> THEN <<>> ELSE header[name][1]

NilBody == "nil"
ReqBodies == {NilBody, "data"}

\* validMethod: a non-empty token (GET, PUT and POST are tokens)
ValidMethod(method) == method # ""

\* http.NewRequest(method, url, body)
NewRequest(method, url, body) ==
    LET parsed == Parse(url) IN
    IF ~ValidMethod(method) \/ ~parsed.ok THEN [ok |-> FALSE]
    ELSE [ok |-> TRUE,
          req |-> [Method |-> method, URL |-> parsed.uri,
                   Header |-> NoHeader, Body |-> body]]

\* what client.Do(req) can return: it fails on a URL that is not http with
\* a host, and may fail on any other
DoOutcomes(req) ==
    IF req.URL.Scheme = <<"h", "t", "t", "p">> /\ req.URL.Host # <<>>
    THEN {"ok", "error"}
    ELSE {"error"}

\* Content-Type headers of a response: "application/json",
\* "Application/JSON; charset=utf-8", "application/xml" and none
ResponseContentTypes ==
    { <<"a", "p", "p", "l", "i", "c", "a", "t", "i", "o", "n", "/", "j", "s", "o", "n">>,
      <<"A", "p", "p", "l", "i", "c", "a", "t", "i", "o", "n", "/", "J", "S", "O", "N",
        ";", " ", "c", "h", "a", "r", "s", "e", "t", "=", "u", "t", "f", "-", "8">>,
      <<"a", "p", "p", "l", "i", "c", "a", "t", "i", "o", "n", "/", "x", "m", "l">>,
      <<>> }

\* what ioutil.ReadAll(res.Body) can return
Payloads == {"payload1", "payload2"}
ReadOutcomes == Payloads \cup {"error"}

(***************************************************************************)
(* The terminal methods.                                                   *)
(***************************************************************************)
\* a result container: untouched, filled by an Unmarshal, or left by one
\* that failed
Untouched == [state |-> "untouched", mt |-> "-", body |-> "-"]
Filled(mt, body) == [state |-> "filled", mt |-> mt, body |-> body]
Failed(mt, body) == [state |-> "failed", mt |-> mt, body |-> body]
NoError == [kind |-> "nil", at |-> 0]
Error(kind) == [kind |-> kind, at |-> 0]

\* the trace of a terminal call on cfg[i] with n result containers: the
\* error returned, the requests handed to client.Do, the Content-Type of
\* the response, the reads of the body, the Unmarshal calls, the containers
Called(op, i, n) ==
    [op |-> op, rc |-> i, nres |-> n, err |-> NoError, sent |-> <<>>,
     response |-> <<>>, reads |-> 0, unmarshals |-> <<>>,
     results |-> [e \in 1..n |-> Untouched]]

\* the two Add calls, were the media types taken the other way round
addHeadersSwapped(req, rc) ==
    [req EXCEPT !.Header =
        HeaderAdd(HeaderAdd(@, "Accept", String(rc.contentType)),
                  "Content-Type", String(rc.accept))]

\* req.Header.Add("Accept", ...); req.Header.Add("Content-Type", ...)
\* addHeaders, were it to attach the entries of the header mapping as well
addHeadersOfConfig(req, rc) ==
    [req EXCEPT !.Header =
        [name \in HeaderNames |->
            IF name = "Accept" THEN <<String(rc.accept)>>
            ELSE IF name = "Content-Type" THEN <<String(rc.contentType)>>
            ELSE IF name \in Keys /\ maps[rc.headers][name] # NoEntry
            THEN <<maps[rc.headers][name]>>
            ELSE <<>>]]

addHeaders(req, rc) ==
    [req EXCEPT !.Header =
        HeaderAdd(HeaderAdd(@, "Accept", String(rc.accept)),
                  "Content-Type", String(rc.contentType))]

\* the test, were the two strings compared as they come
contentTypeMismatchExact(contentType, n, accept) ==
    /\ n # 0
    /\ ~Contains(contentType, String(accept))

\* the test of the response content type against the accept type
contentTypeMismatch(contentType, n, accept) ==
    /\ n # 0
    /\ ~Contains(ToLower(contentType), ToLower(String(accept)))

\* accept.Unmarshal(body, e) under trace c: it fails on the containers of
\* fails, and fills any other with the payload decoded as accept
Unmarshal(c, accept, body, e, fails) ==
    LET passed == [c EXCEPT !.unmarshals =
                       Append(@, [mt |-> accept, body |-> body, e |-> e])]
    IN  IF e \in fails
        THEN [passed EXCEPT !.err = [kind |-> "Unmarshal", at |-> e],
                            !.results[e] = Failed(accept, body)]
        ELSE [passed EXCEPT !.results[e] = Filled(accept, body)]

\* the loop, were it to go on after a failure
RECURSIVE unmarshalAll(_, _, _, _, _)
unmarshalAll(c, accept, body, e, fails) ==
    IF e > c.nres THEN c
    ELSE unmarshalAll(Unmarshal(c, accept, body, e, fails),
                      accept, body, e + 1, fails)

\* for _, e := range resEntity { if err = ...Unmarshal(body, e); err != nil
\* { return err } }, from container e on
\* unmarshalEach, were the body a stream that the first Unmarshal drains
RECURSIVE unmarshalDraining(_, _, _, _, _)
unmarshalDraining(c, accept, body, e, fails) ==
    IF e > c.nres THEN c
    ELSE LET after == Unmarshal(c, accept, IF e = 1 THEN body ELSE "", e, fails) IN
         IF after.err # NoError THEN after
         ELSE unmarshalDraining(after, accept, body, e + 1, fails)

RECURSIVE unmarshalEach(_, _, _, _, _)
unmarshalEach(c, accept, body, e, fails) ==
    IF e > c.nres THEN c
    ELSE LET after == Unmarshal(c, accept, body, e, fails) IN
         IF after.err # NoError THEN after
         ELSE unmarshalEach(after, accept, body, e + 1, fails)

\* request, were it to send a second time after a failed send (retries), or
\* to read the body before it tests the content type (readsFirst)
requestVariant(i, op, httpReq, reqBody, n, retries, readsFirst) ==
    LET rc == cfg[i]
        c == Called(op, i, n)
        parsed == Parse(rc.url)
        uri == addQueryParams(parsed.uri, maps[rc.query])
        built == NewRequest(httpReq, URLString(uri), reqBody)
        req == addHeaders(built.req, rc)
        sent == [c EXCEPT !.sent = <<req>>]
    IN
    /\ Running
    /\ UNCHANGED <<cfg, origin, maps, arrays, mutations>>
    /\ IF ~parsed.ok THEN call' = [c EXCEPT !.err = Error("Parse")]
       ELSE IF ~built.ok THEN call' = [c EXCEPT !.err = Error("NewRequest")]
       ELSE \E do \in DoOutcomes(req) :
          IF do = "error"
          THEN call' = [sent EXCEPT
                           !.sent = IF retries THEN <<req, req>> ELSE <<req>>,
                           !.err = Error("Do")]
          ELSE \E contentType \in ResponseContentTypes :
             LET res == [sent EXCEPT !.response = <<contentType>>] IN
             IF contentTypeMismatch(contentType, n, rc.accept)
             THEN call' = [res EXCEPT
                              !.reads = IF readsFirst THEN 1 ELSE 0,
                              !.err = Error("ContentType")]
             ELSE \E body \in ReadOutcomes :
                LET read == [res EXCEPT !.reads = 1] IN
                IF body = "error"
                THEN call' = [read EXCEPT !.err = Error("ReadAll")]
                ELSE \E fails \in SUBSET (1..n) :
                        call' = unmarshalEach(read, rc.accept, body, 1, fails)

requestRetrying(i, op, httpReq, reqBody, n) ==
    requestVariant(i, op, httpReq, reqBody, n, TRUE, FALSE)

requestReadingFirst(i, op, httpReq, reqBody, n) ==
    requestVariant(i, op, httpReq, reqBody, n, FALSE, TRUE)

request(i, op, httpReq, reqBody, n) ==
    LET rc == cfg[i]
        c == Called(op, i, n)
        parsed == Parse(rc.url)
        uri == addQueryParams(parsed.uri, maps[rc.query])
        built == NewRequest(httpReq, URLString(uri), reqBody)
        req == addHeaders(built.req, rc)
        sent == [c EXCEPT !.sent = <<req>>]
    IN
    /\ Running
    /\ UNCHANGED <<cfg, origin, maps, arrays, mutations>>
    /\ IF ~parsed.ok THEN call' = [c EXCEPT !.err = Error("Parse")]
       ELSE IF ~built.ok THEN call' = [c EXCEPT !.err = Error("NewRequest")]
       ELSE \E do \in DoOutcomes(req) :
          IF do = "error" THEN call' = [sent EXCEPT !.err = Error("Do")]
          ELSE \E contentType \in ResponseContentTypes :
             LET res == [sent EXCEPT !.response = <<contentType>>] IN
             IF contentTypeMismatch(contentType, n, rc.accept)
             THEN call' = [res EXCEPT !.err = Error("ContentType")]
             ELSE \E body \in ReadOutcomes :
                LET read == [res EXCEPT !.reads = 1] IN
                IF body = "error"
                THEN call' = [read EXCEPT !.err = Error("ReadAll")]
                ELSE \E fails \in SUBSET (1..n) :
                        call' = unmarshalEach(read, rc.accept, body, 1, fails)

Get(i, n) == request(i, "Get", "GET", NilBody, n)

Put(i, reqBody, n) == request(i, "Put", "PUT", reqBody, n)

Post(i, reqBody, n) == request(i, "Post", "POST", reqBody, n)

\* Delete, were it routed through request like the other three
DeleteRequests(i, n) == request(i, "Delete", "DELETE", NilBody, n)

Delete(i, n) ==
    /\ Running
    /\ call' = Called("Delete", i, n)
    /\ UNCHANGED <<cfg, origin, maps, arrays, mutations>>

Clients == 1..Len(cfg)
Room(max) == Len(cfg) < max

(***************************************************************************)
(* Spec: every builder and every terminal method, on any RestClient made   *)
(* so far.                                                                 *)
(***************************************************************************)
Next ==
    \/ \E i \in Clients, accept \in MediaType :
           Room(MaxConfigs) /\ Accept(i, accept)
    \/ \E i \in Clients, contentType \in MediaType :
           Room(MaxConfigs) /\ ContentType(i, contentType)
    \/ \E i \in Clients, path \in PathArgs : Room(MaxConfigs) /\ Path(i, path)
    \/ \E i \in Clients, key \in Keys, value \in Values :
           Room(MaxConfigs) /\ Query(i, key, value)
    \/ \E i \in Clients, key \in Keys, value \in Values :
           Room(MaxConfigs) /\ Header(i, key, value)
    \/ \E i \in Clients, cookie \in Cookies :
           Room(MaxConfigs) /\ Cookie(i, cookie)
    \/ \E i \in Clients, n \in 0..MaxResults : Get(i, n)
    \/ \E i \in Clients, reqBody \in ReqBodies, n \in 0..MaxResults :
           Put(i, reqBody, n)
    \/ \E i \in Clients, reqBody \in ReqBodies, n \in 0..MaxResults :
           Post(i, reqBody, n)
    \/ \E i \in Clients, n \in 0..MaxResults : Delete(i, n)

Spec == Init /\ [][Next]_vars

(***************************************************************************)
(* SpecBuild: the builders, and a caller that writes to the map GetHeaders *)
(* returned.                                                               *)
(***************************************************************************)
InitBuild == InitWith({<<"h", "t", "t", "p", ":", "/", "/", "x", "/">>})

NextBuild ==
    \/ \E i \in Clients, accept \in MediaType :
           Room(MaxBuildConfigs) /\ Accept(i, accept)
    \/ \E i \in Clients, contentType \in MediaType :
           Room(MaxBuildConfigs) /\ ContentType(i, contentType)
    \/ \E i \in Clients, path \in PathArgs :
           Room(MaxBuildConfigs) /\ Path(i, path)
    \/ \E i \in Clients, key \in Keys, value \in Values :
           Room(MaxBuildConfigs) /\ Query(i, key, value)
    \/ \E i \in Clients, key \in Keys, value \in Values :
           Room(MaxBuildConfigs) /\ Header(i, key, value)
    \/ \E i \in Clients, cookie \in Cookies :
           Room(MaxBuildConfigs) /\ Cookie(i, cookie)
    \/ \E i \in Clients, key \in Keys, value \in Values \cup {NoEntry} :
           WriteReturnedHeaders(i, key, value)

SpecBuild == InitBuild /\ [][NextBuild]_vars

(***************************************************************************)
(* SpecCookie: chains and branches of Cookie calls.                        *)
(***************************************************************************)
NextCookie ==
    \E i \in Clients, cookie \in Cookies :
        Room(MaxCookieConfigs) /\ Cookie(i, cookie)

SpecCookie == InitBuild /\ [][NextCookie]_vars

(***************************************************************************)
(* SpecMedia: Accept and ContentType calls, then a terminal call.          *)
(***************************************************************************)
NextMedia ==
    \/ \E i \in Clients, accept \in MediaType :
           Room(MaxMediaConfigs) /\ Accept(i, accept)
    \/ \E i \in Clients, contentType \in MediaType :
           Room(MaxMediaConfigs) /\ ContentType(i, contentType)
    \/ \E i \in Clients, n \in 0..MaxResults : Get(i, n)
    \/ \E i \in Clients, reqBody \in ReqBodies, n \in 0..MaxResults :
           Put(i, reqBody, n)
    \/ \E i \in Clients, reqBody \in ReqBodies, n \in 0..MaxResults :
           Post(i, reqBody, n)

SpecMedia == Init /\ [][NextMedia]_vars

(***************************************************************************)
(* SpecPath: MakeClient on any base URL, then one Path call with any       *)
(* segments.                                                               *)
(***************************************************************************)
Segments == StringsUpTo(PathAlphabet, MaxSegLen)

InitPath == InitWith(StringsUpTo(PathAlphabet, MaxLen))

NextPath ==
    \E path \in StringsUpTo(Segments, MaxSegs) : Len(cfg) = 1 /\ Path(1, path)

SpecPath == InitPath /\ [][NextPath]_vars

(***************************************************************************)
(* SpecMake: MakeClient on any string, then a terminal call, which is      *)
(* where the URL is first parsed.                                          *)
(***************************************************************************)
MakeAlphabet == {Slash, "a", "%", ":"}

InitMake == InitWith(StringsUpTo(MakeAlphabet, MaxLen))

NextMake ==
    \/ \E n \in 0..MaxResults : Get(1, n)
    \/ \E n \in 0..MaxResults : Delete(1, n)

SpecMake == InitMake /\ [][NextMake]_vars

(***************************************************************************)
(* Properties.                                                             *)
(***************************************************************************)
\* a step in which the builder op returned a new RestClient
Made(op) == Len(cfg') = Len(cfg) + 1 /\ origin'[Len(cfg')].op = op
BuilderStep == Len(cfg') = Len(cfg) + 1
Result == cfg'[Len(cfg')]
Receiver == cfg[origin'[Len(cfg')].rc]
Arg == origin'[Len(cfg')].arg

\* m with key set to value
With(m, key, value) == [k \in Keys |-> IF k = key THEN value ELSE m[k]]

\* C1: the query mapping of c.Query(k, v) is c's query mapping with k set
\* to v: every query entry of c is kept, and no entry comes from c's headers
C1_QueryCopiesQuery ==
    [][Made("Query") =>
          QueryOf(maps', Result) = With(QueryOf(maps, Receiver), Arg[1], Arg[2])]_vars

\* a = base.Header("H", "1") and b = base.Header("H", "2")
Branched(base, a, b) ==
    /\ origin[a].op = "Header" /\ origin[a].rc = base
    /\ origin[a].arg = <<"H", "1">>
    /\ origin[b].op = "Header" /\ origin[b].rc = base
    /\ origin[b].arg = <<"H", "2">>

\* a maps H to 1, b maps H to 2 and base has no H
BranchesApart(ms, base, a, b) ==
    /\ HeadersOf(ms, cfg[a])["H"] = "1"
    /\ HeadersOf(ms, cfg[b])["H"] = "2"
    /\ HeadersOf(ms, cfg[base])["H"] = NoEntry

C3_CookieAppends ==
    [][Made("Cookie") =>
          /\ CookiesOf(arrays', Result) = Append(CookiesOf(arrays, Receiver), Arg)
          /\ \A j \in Clients :
                 CookiesOf(arrays', cfg'[j]) = CookiesOf(arrays, cfg[j])]_vars

\* s from its first to its last character other than "/"
Stripped(s) ==
    LET inner == {n \in 1..Len(s) : s[n] # Slash} IN
    IF inner = {} THEN <<>>
    ELSE SubSeq(s, CHOOSE n \in inner : \A m \in inner : n <= m,
                   CHOOSE n \in inner : \A m \in inner : n >= m)

\* the parts, in order, with one "/" between neighbours
RECURSIVE Joined(_)
Joined(parts) ==
    IF Len(parts) = 1 THEN parts[1]
    ELSE Joined(SubSeq(parts, 1, Len(parts) - 1))
         \o <<Slash>> \o parts[Len(parts)]

\* MakeClient(base).Path(segments...) is cfg[2]
PathCalled == Len(cfg) = 2 /\ origin[2].op = "Path"
PathBase == origin[1].arg
PathSegments == origin[2].arg
PathParts ==
    <<Stripped(PathBase)>>
    \o [k \in 1..Len(PathSegments) |-> Stripped(PathSegments[k])]

\* no "/" stands next to the "/" that joins part k to part k + 1
SingleSlashAtJoins(url, parts) ==
    \A k \in 1..(Len(parts) - 1) :
        LET at == Len(Joined(SubSeq(parts, 1, k))) + 1 IN
        /\ at = 1 \/ url[at - 1] # Slash
        /\ at = Len(url) \/ url[at + 1] # Slash

\* C4 as claimed: the URL of MakeClient(base).Path(segments...) is the
\* stripped base followed by "/" and the stripped segment for each segment
\* in order, no "/" is doubled at a join, and the receiver keeps its URL
C4_PathJoins ==
    PathCalled =>
        /\ GetURL(cfg[2]) = Joined(PathParts)
        /\ SingleSlashAtJoins(GetURL(cfg[2]), PathParts)
        /\ GetURL(cfg[1]) = Stripped(PathBase)

\* C4 as amended: as above, with no "/" doubled at a join when every
\* segment holds a character other than "/"
C4_PathJoinsAmended ==
    PathCalled =>
        /\ GetURL(cfg[2]) = Joined(PathParts)
        /\ (\A k \in 1..Len(PathSegments) : Stripped(PathSegments[k]) # <<>>)
               => SingleSlashAtJoins(GetURL(cfg[2]), PathParts)
        /\ GetURL(cfg[1]) = Stripped(PathBase)

\* a base and segments with slashes to strip, each segment with a character
\* other than "/"
C4_Witness ==
    /\ PathCalled
    /\ Len(PathSegments) = 2
    /\ PathBase # Stripped(PathBase) /\ Stripped(PathBase) # <<>>
    /\ \A k \in 1..2 : Stripped(PathSegments[k]) # <<>>
    /\ \E k \in 1..2 : Stripped(PathSegments[k]) # PathSegments[k]

\* the latest operation is a Get, Put or Post
Terminal == call.op \in {"Get", "Put", "Post"}
\* ... and client.Do was handed a request
Sent == Terminal /\ Len(call.sent) = 1
\* ... and returned a response
Responded == Terminal /\ call.response # <<>>

\* sub occurs in s, letter case set aside
ContainsFolded(s, sub) ==
    \E n \in 0..(Len(s) - Len(sub)) :
        \A m \in 1..Len(sub) : ToLowerChar(s[n + m]) = ToLowerChar(sub[m])

\* C5: once the send succeeded, the call fails with the content-type
\* mismatch error exactly when it has a result container and the response
\* Content-Type does not hold the accept wire name, letter case set aside
C5_MismatchIff ==
    Responded =>
        (call.err.kind = "ContentType"
            <=> /\ call.nres > 0
                /\ ~ContainsFolded(call.response[1],
                                   String(GetAccept(cfg[call.rc]))))

\* a call with containers that got a response of another type
C5_Witness ==
    /\ Responded
    /\ call.nres > 0
    /\ call.err.kind = "ContentType"

\* C6: Unmarshal is called on the containers in argument order and stops
\* at the first failure: that error is returned, and the containers after
\* the failing one are never passed to Unmarshal and stay untouched
C6_UnmarshalStopsAtFailure ==
    Terminal =>
        LET calls == call.unmarshals IN
        /\ \A j \in 1..Len(calls) : calls[j].e = j
        /\ \A j \in 1..(Len(calls) - 1) : call.results[j].state = "filled"
        /\ \A e \in (Len(calls) + 1)..call.nres : call.results[e] = Untouched
        /\ (calls # <<>> /\ call.results[Len(calls)].state = "failed")
               => call.err = [kind |-> "Unmarshal", at |-> Len(calls)]
        /\ call.err.kind = "Unmarshal"
               => /\ Len(calls) = call.err.at
                  /\ call.results[call.err.at].state = "failed"

\* the first of two containers failed
C6_Witness ==
    /\ Terminal /\ call.nres = 2
    /\ call.err = [kind |-> "Unmarshal", at |-> 1]
    /\ call.results[2] = Untouched

\* C7: Delete returns no error, sends nothing, reads no body and calls no
\* Unmarshal
C7_DeleteDoesNothing ==
    call.op = "Delete" =>
        /\ call.err = NoError
        /\ call.sent = <<>> /\ call.response = <<>>
        /\ call.reads = 0
        /\ call.unmarshals = <<>>
        /\ \A e \in 1..call.nres : call.results[e] = Untouched

\* Delete with containers on a RestClient whose URL does not parse
C7_Witness ==
    /\ call.op = "Delete"
    /\ ~Parse(GetURL(cfg[call.rc])).ok
    /\ call.nres > 0

\* C8: a write of the caller to the map GetHeaders returned changes the
\* headers of no RestClient
C8_GetHeadersSnapshot ==
    [][mutations' = mutations + 1 =>
          \A j \in Clients :
              HeadersOf(maps', cfg'[j]) = HeadersOf(maps, cfg[j])]_vars

\* C9: the URL of the request handed to client.Do carries every entry of
\* the query mapping as a query parameter
C9_QuerySent ==
    Sent => Entries(QueryOf(maps, cfg[call.rc])) \subseteq URLQuery(call.sent[1].URL)

\* the argument of the last call of op on the way to cfg[i], the JSON
\* default of MakeClient when there is none
RECURSIVE LastSet(_, _)
LastSet(i, op) ==
    IF origin[i].op = "MakeClient" THEN ApplicationJSON
    ELSE IF origin[i].op = op THEN origin[i].arg
    ELSE LastSet(origin[i].rc, op)

\* C10: the request handed to client.Do has the wire name of the media type
\* of the last Accept call as Accept header, and that of the last
\* ContentType call as Content-Type header
C10_MediaTypeHeaders ==
    Sent =>
        /\ HeaderGet(call.sent[1].Header, "Accept")
               = String(LastSet(call.rc, "Accept"))
        /\ HeaderGet(call.sent[1].Header, "Content-Type")
               = String(LastSet(call.rc, "ContentType"))

\* a request after two Accept calls, with unlike media types at the end
C10_Witness ==
    /\ Sent
    /\ origin[call.rc].op = "Accept"
    /\ origin[origin[call.rc].rc].op = "Accept"
    /\ origin[call.rc].arg # origin[origin[call.rc].rc].arg
    /\ GetAccept(cfg[call.rc]) # GetContentType(cfg[call.rc])

\* C11: MakeClient(baseUrl) returns, for every string, a RestClient whose
\* URL is baseUrl without its leading and trailing slashes, whose accept and
\* contentType are JSON, and whose headers, query and cookies are empty
C11_MakeClient ==
    Len(cfg) = 1 =>
        /\ origin[1].op = "MakeClient"
        /\ GetURL(cfg[1]) = Stripped(origin[1].arg)
        /\ GetAccept(cfg[1]) = ApplicationJSON
        /\ GetContentType(cfg[1]) = ApplicationJSON
        /\ \A k \in Keys : /\ HeadersOf(maps, cfg[1])[k] = NoEntry
                           /\ QueryOf(maps, cfg[1])[k] = NoEntry
        /\ CookiesOf(arrays, cfg[1]) = <<>>

\* MakeClient took a string with slashes to strip that url.Parse rejects
C11_Witness ==
    /\ Len(cfg) = 1
    /\ origin[1].arg # GetURL(cfg[1])
    /\ call.op = "Get" /\ call.err.kind = "Parse"

\* C12: a terminal call sends at most once, and only when the URL parsed
\* and the request was built: a parse or build failure is returned with no
\* send, a transport failure with no read of the body and no Unmarshal
C12_SingleSend ==
    Terminal =>
        /\ Len(call.sent) <= 1
        /\ call.sent # <<>> =>
               /\ Parse(GetURL(cfg[call.rc])).ok
               /\ call.err.kind \notin {"Parse", "NewRequest"}
        /\ ~Parse(GetURL(cfg[call.rc])).ok => call.err.kind = "Parse"
        /\ call.err.kind \in {"Parse", "NewRequest"} =>
               /\ call.sent = <<>> /\ call.response = <<>>
               /\ call.reads = 0 /\ call.unmarshals = <<>>
        /\ call.err.kind = "Do" =>
               /\ call.response = <<>>
               /\ call.reads = 0 /\ call.unmarshals = <<>>

\* a call with containers whose send failed
C12_Witness ==
    /\ Terminal /\ call.nres > 0
    /\ call.err.kind = "Do"
    /\ Len(call.sent) = 1

\* C13: every cookie of the config is attached to the request that a
\* Get/Put/Post call hands to the transport
C13_CookiesSent ==
    Sent =>
        \A e \in 1..Len(CookiesOf(arrays, cfg[call.rc])) :
            \E h \in 1..Len(call.sent[1].Header["Cookie"]) :
                call.sent[1].Header["Cookie"][h]
                    = CookiesOf(arrays, cfg[call.rc])[e]

\* C14: a call that fails with the content-type mismatch error has not read
\* the response body and has not invoked Unmarshal: every result container
\* is left untouched
C14_MismatchStops ==
    (Terminal /\ call.err.kind = "ContentType") =>
        /\ call.reads = 0
        /\ call.unmarshals = <<>>
        /\ \A e \in 1..call.nres : call.results[e] = Untouched

\* a response of another content type came back to a call with two containers
C14_Witness ==
    /\ Responded /\ call.nres = 2
    /\ call.err.kind = "ContentType"
    /\ ~ContainsFolded(call.response[1], String(GetAccept(cfg[call.rc])))

\* C15: a call that returns no error with n containers has read the body
\* exactly once and invoked Unmarshal exactly n times, once per container in
\* argument order, each time with the same payload and the config's accept
\* media type; with n = 0 the body is read and Unmarshal is never invoked
C15_UnmarshalEachOnce ==
    (Terminal /\ call.err = NoError) =>
        /\ call.reads = 1
        /\ Len(call.unmarshals) = call.nres
        /\ \E body \in Payloads :
              \A e \in 1..call.nres :
                  /\ call.unmarshals[e]
                         = [mt |-> GetAccept(cfg[call.rc]), body |-> body, e |-> e]
                  /\ call.results[e] = Filled(GetAccept(cfg[call.rc]), body)

\* a call with two containers returned no error
C15_Witness ==
    /\ Terminal /\ call.err = NoError
    /\ call.nres = 2 /\ Len(call.unmarshals) = 2

\* a call with no container returned no error after a response of another
\* content type
C15_WitnessNone ==
    /\ Terminal /\ call.err = NoError
    /\ call.nres = 0 /\ call.reads = 1
    /\ ~ContainsFolded(call.response[1], String(GetAccept(cfg[call.rc])))

\* C16: the header mapping of the config has no effect on the request handed
\* to the transport: its headers are Accept and Content-Type with the wire
\* names of the config's media types and nothing else, so two configs that
\* differ in their header mappings only send the same headers
C16_HeadersNotSent ==
    Sent =>
        call.sent[1].Header =
            [name \in HeaderNames |->
                IF name = "Accept"
                THEN <<String(GetAccept(cfg[call.rc]))>>
                ELSE IF name = "Content-Type"
                THEN <<String(GetContentType(cfg[call.rc]))>>
                ELSE <<>>]

\* a request was sent for a config whose header mapping has an entry
C16_Witness ==
    /\ Sent
    /\ \E k \in Keys : HeadersOf(maps, cfg[call.rc])[k] # NoEntry

\* what the six getters and the terminal methods can read of a RestClient
View(ms, as, rc) ==
    [url |-> GetURL(rc), accept |-> GetAccept(rc),
     contentType |-> GetContentType(rc), headers |-> HeadersOf(ms, rc),
     query |-> QueryOf(ms, rc), cookies |-> CookiesOf(as, rc)]

Fields == {"url", "accept", "contentType", "headers", "query", "cookies"}

\* the field a builder method sets
OwnField(op) ==
    CASE op = "Accept" -> "accept"
      [] op = "ContentType" -> "contentType"
      [] op = "Path" -> "url"
      [] op = "Query" -> "query"
      [] op = "Header" -> "headers"
      [] op = "Cookie" -> "cookies"

\* C17: a builder method changes its own field only: every other field of
\* the RestClient it returns equals the receiver's, and all six fields of the
\* receiver read the same before and after the call
C17_BuilderFrame ==
    [][BuilderStep =>
          /\ View(maps', arrays', cfg'[origin'[Len(cfg')].rc])
                 = View(maps, arrays, Receiver)
          /\ \A f \in Fields \ {OwnField(origin'[Len(cfg')].op)} :
                 View(maps', arrays', Result)[f] = View(maps, arrays, Receiver)[f]]_vars

\* a builder was applied to a RestClient that another builder had made, e.g.
\* Query on the result of Header, whose entry the result still reads
C17_Witness ==
    \E i \in Clients :
        /\ origin[i].op = "Query"
        /\ origin[origin[i].rc].op = "Header"
        /\ HeadersOf(maps, cfg[i]) # EmptyMap
        /\ HeadersOf(maps, cfg[i]) = HeadersOf(maps, cfg[origin[i].rc])

====
